---- MODULE Spec2Model ----
(***************************************************************************)
(* Adaptive Cards Toolkit: the ValidationUtility (validate, get_size,      *)
(* suggest_optimizations), the card it reads, and the construction of the  *)
(* ValidationUtility and the DeliveryManager.                              *)
(*                                                                         *)
(* Sizes are kilobytes with two decimals, held as integers in hundredths   *)
(* of a KB (19.60 KB is 1960).  Formatted messages are held as the         *)
(* template text together with the values formatted into it.               *)
(***************************************************************************)
EXTENDS Integers, Sequences, FiniteSets, TLC

VARIABLES card, vu, dm, ret, repeated

vars == <<card, vu, dm, ret, repeated>>

(***************************************************************************)
(* Bounds of the model.                                                    *)
(***************************************************************************)
MaxBody == 2
MaxOptTexts == 11
MaxOptImages == 1
MaxOptContainers == 4

(***************************************************************************)
(* Values.                                                                 *)
(***************************************************************************)
None == "None"

\* target / platform strings handed to the constructors
Targets == {"teams", "Teams", "slack"}

\* str.lower() on the strings of the model
Lower(s) ==
    CASE s = "Teams" -> "teams"
      [] s = "TEAMS" -> "teams"
      [] s = "Slack" -> "slack"
      [] OTHER -> s

\* truthiness of an Optional[str]: None and "" are falsy
Truthy(s) == s # None /\ s # ""

\* webhook_url arguments
WebhookUrls == {None, "", "https://example.com/webhook"}

\* card schema versions, ordered
Versions == {"1.0", "1.5"}

VersionRank(v) ==
    CASE v = "1.0" -> 0
      [] v = "1.2" -> 2
      [] v = "1.3" -> 3
      [] v = "1.5" -> 5
      [] OTHER -> 0

DEFAULT_CARD_VERSION == "1.5"

(***************************************************************************)
(* Elements and actions of a card.                                         *)
(***************************************************************************)
Element(type, id) == [type |-> type, id |-> id]

TextBlock(id) == Element("TextBlock", id)
Image(id) == Element("Image", id)
Container(id) == Element("Container", id)
RichTextBlock(id) == Element("RichTextBlock", id)
Table(id) == Element("Table", id)

\* the elements appended to a card in the state machine
Elements == { TextBlock(""), RichTextBlock(None), Table("table1") }

ActionSubmit(data_len) == [type |-> "Action.Submit", data_len |-> data_len]

\* hasattr(item, "url"): of the elements, the Image declares a url
HasUrl(item) == item.type = "Image"

\* hasattr(item, "items"): of the elements, the Container declares items
HasItems(item) == item.type = "Container"

\* A card: has_body is FALSE when card.body is None (body is then <<>>).
\* AdaptiveCard.new().version(v).create(), with or without a body list
NewCard(version, has_body) ==
    [version |-> version, has_body |-> has_body, body |-> <<>>, actions |-> <<>>]

\* card.body or []
BodyOrEmpty(c) == IF c.has_body THEN c.body ELSE <<>>

(***************************************************************************)
(* The card validator of the adaptive_cards package, as the toolkit uses   *)
(* it: validate(card), card_size(card), details().                         *)
(***************************************************************************)
EnvelopeBytes == 128
ElementBaseBytes == 48
IdBytes == 16
ActionBaseBytes == 40

ElementBytes(item) == ElementBaseBytes + (IF Truthy(item.id) THEN IdBytes ELSE 0)

ActionBytes(a) == ActionBaseBytes + a.data_len

RECURSIVE SumElementBytes(_)
SumElementBytes(items) ==
    IF items = <<>> THEN 0
    ELSE ElementBytes(Head(items)) + SumElementBytes(Tail(items))

RECURSIVE SumActionBytes(_)
SumActionBytes(actions) ==
    IF actions = <<>> THEN 0
    ELSE ActionBytes(Head(actions)) + SumActionBytes(Tail(actions))

\* length in bytes of the card's JSON serialization
JsonBytes(c) ==
    EnvelopeBytes + SumElementBytes(BodyOrEmpty(c)) + SumActionBytes(c.actions)

\* round(bytes / 1024, 2), in hundredths of a KB (ties go to the even digit)
RoundKB(bytes) ==
    LET q == (bytes * 100) \div 1024
        r == (bytes * 100) % 1024
    IN  IF r > 512 \/ (r = 512 /\ q % 2 = 1) THEN q + 1 ELSE q

\* CardValidator.card_size(card)
card_size_of(c) == RoundKB(JsonBytes(c))

\* size limit of the Microsoft Teams validator, in KB
TeamsValidatorLimitKB == 28

\* schema version an element type requires
MinVersion(type) ==
    CASE type = "RichTextBlock" -> "1.2"
      [] type = "Table" -> "1.5"
      [] OTHER -> "1.0"

Finding(failure, message) == [failure |-> failure, message |-> message]

\* 1. structural check
StructuralCheck(c) ==
    IF Len(BodyOrEmpty(c)) = 0 THEN << Finding("EMPTY_CARD", "") >> ELSE <<>>

\* 2. schema check: one finding per offending element type, in order of
\*    first occurrence
RECURSIVE SchemaScan(_, _, _)
SchemaScan(items, version, seen) ==
    IF items = <<>> THEN <<>>
    ELSE LET t == Head(items).type
             offending == VersionRank(MinVersion(t)) > VersionRank(version)
         IN  IF offending /\ t \notin seen
             THEN << Finding("INVALID_FIELD_VERSION", t) >>
                      \o SchemaScan(Tail(items), version, seen \cup {t})
             ELSE SchemaScan(Tail(items), version, seen)

SchemaCheck(c) == SchemaScan(BodyOrEmpty(c), c.version, {})

\* 3. size check against the validator's own limit
SizeCheck(c, limitKB) ==
    IF card_size_of(c) > limitKB * 100
    THEN << Finding("SIZE_LIMIT_EXCEEDED", "") >>
    ELSE <<>>

\* CardValidatorFactory.create_validator_microsoft_teams()
create_validator_microsoft_teams ==
    [framework |-> "teams", limitKB |-> TeamsValidatorLimitKB, findings |-> <<>>]

\* CardValidator.validate(card): the findings of earlier runs are dropped,
\* the three checks run in order
CardValidator_validate(validator, c) ==
    [validator EXCEPT !.findings =
        StructuralCheck(c) \o SchemaCheck(c) \o SizeCheck(c, validator.limitKB)]

\* the Result of the run that left these findings
CardValidator_result(validator) ==
    IF validator.findings = <<>> THEN "SUCCESS" ELSE "FAILURE"

(***************************************************************************)
(* ValidationUtility.                                                      *)
(***************************************************************************)
TeamsSizeLimitKB == 28
OtherSizeLimitKB == 40

\* 28 if self.target.lower() == "teams" else 40
SizeLimit(target) ==
    IF Lower(target) = "teams" THEN TeamsSizeLimitKB ELSE OtherSizeLimitKB

\* The double size_limit * 0.7 or size_limit * 0.8 against the exact product:
\* 28 * 0.7 is 19.599999999999998 (below 19.6), 28 * 0.8 is
\* 22.400000000000002 (above 22.4), 40 * 0.7 is 28.0 and 40 * 0.8 is 32.0.
FloatProductError(limit, tenths) ==
    CASE limit = 28 /\ tenths = 7 -> -1
      [] limit = 28 /\ tenths = 8 -> 1
      [] OTHER -> 0

\* card_size > size_limit * (tenths / 10), as the doubles compare; size is a
\* two-decimal value, so the error of the product decides only a tie
GreaterThanFraction(size, limit, tenths) ==
    2 * size > 2 * (limit * tenths * 10) + FloatProductError(limit, tenths)

\* a message: its template and the values formatted into it
Msg(text, strs, nums) == [text |-> text, strs |-> strs, nums |-> nums]

EmptyCardSuggestion ==
    Msg("Card body is empty. Add at least one element to the card.", <<>>, <<>>)

FieldVersionSuggestion(version) ==
    Msg("Some elements or fields require a newer schema version than '{card.version}'. Consider upgrading the card version or removing incompatible elements.",
        <<version>>, <<>>)

SizeExceededSuggestions ==
    << Msg("Card size exceeds the limit for the target platform.", <<>>, <<>>),
       Msg("Consider reducing the number of elements or simplifying complex elements.", <<>>, <<>>),
       Msg("Minimize the use of images or use lower resolution images.", <<>>, <<>>),
       Msg("Break content into multiple smaller cards if possible.", <<>>, <<>>) >>

ApproachingWarning(size, limit) ==
    Msg("Card size ({card_size:.2f}KB) is approaching the limit ({size_limit}KB).",
        <<>>, <<size, limit>>)

OptimizeSuggestion ==
    Msg("Consider optimizing the card to reduce its size.", <<>>, <<>>)

NoIdsWarning ==
    Msg("No elements have IDs, which may limit interactivity and accessibility.", <<>>, <<>>)

\* the response with valid taken from the wrong Result member
PrepareResponse_WrongResult(target, result, size, findings) ==
    [ valid |-> (result = "FAILURE"),
      details |-> [i \in 1..Len(findings) |-> findings[i].failure],
      size |-> size,
      size_limit |-> SizeLimit(target),
      warnings |-> <<>>,
      suggestions |-> <<>> ]

\* the response as first prepared
PrepareResponse(target, result, size, findings) ==
    [ valid |-> (result = "SUCCESS"),
      details |-> [i \in 1..Len(findings) |-> findings[i].failure],
      size |-> size,
      size_limit |-> SizeLimit(target),
      warnings |-> <<>>,
      suggestions |-> <<>> ]

\* the loop body with the last of the four size suggestions left out
SuggestionsFor_ThreeSizeTips(finding, version) ==
    IF finding.failure = "EMPTY_CARD" THEN << EmptyCardSuggestion >>
    ELSE IF finding.failure = "INVALID_FIELD_VERSION"
         THEN << FieldVersionSuggestion(version) >>
    ELSE IF finding.failure = "SIZE_LIMIT_EXCEEDED"
         THEN SubSeq(SizeExceededSuggestions, 1, 3)
    ELSE <<>>

\* the loop body with its first two branches testing each other's failure
SuggestionsFor_SwappedBranches(finding, version) ==
    IF finding.failure = "INVALID_FIELD_VERSION" THEN << EmptyCardSuggestion >>
    ELSE IF finding.failure = "EMPTY_CARD"
         THEN << FieldVersionSuggestion(version) >>
    ELSE IF finding.failure = "SIZE_LIMIT_EXCEEDED" THEN SizeExceededSuggestions
    ELSE <<>>

\* one pass of the loop over the findings
SuggestionsFor(finding, version) ==
    IF finding.failure = "EMPTY_CARD" THEN << EmptyCardSuggestion >>
    ELSE IF finding.failure = "INVALID_FIELD_VERSION"
         THEN << FieldVersionSuggestion(version) >>
    ELSE IF finding.failure = "SIZE_LIMIT_EXCEEDED" THEN SizeExceededSuggestions
    ELSE <<>>

RECURSIVE AddFindingSuggestions(_, _, _)
AddFindingSuggestions(response, findings, version) ==
    IF findings = <<>> THEN response
    ELSE AddFindingSuggestions(
             [response EXCEPT !.suggestions = @ \o SuggestionsFor(Head(findings), version)],
             Tail(findings), version)

\* the size-related warning without the test card_size <= size_limit
AddSizeWarning_NoUpperBound(response, size) ==
    LET size_limit == response.size_limit
    IN  IF GreaterThanFraction(size, size_limit, 8)
        THEN [response EXCEPT
                 !.warnings = Append(@, ApproachingWarning(size, size_limit)),
                 !.suggestions = Append(@, OptimizeSuggestion)]
        ELSE response

\* the size-related warning
AddSizeWarning(response, size) ==
    LET size_limit == response.size_limit
    IN  IF GreaterThanFraction(size, size_limit, 8) /\ size <= size_limit * 100
        THEN [response EXCEPT
                 !.warnings = Append(@, ApproachingWarning(size, size_limit)),
                 !.suggestions = Append(@, OptimizeSuggestion)]
        ELSE response

\* any(item.id for item in card.body or [])
AnyItemId(c) ==
    LET body == BodyOrEmpty(c) IN \E i \in 1..Len(body) : Truthy(body[i].id)

\* the check with all() in the place of any()
AddIdWarning_AllIds(response, c) ==
    IF ~(\A i \in 1..Len(BodyOrEmpty(c)) : Truthy(BodyOrEmpty(c)[i].id))
    THEN [response EXCEPT !.warnings = Append(@, NoIdsWarning)]
    ELSE response

\* the check for elements without IDs
AddIdWarning(response, c) ==
    IF ~AnyItemId(c)
    THEN [response EXCEPT !.warnings = Append(@, NoIdsWarning)]
    ELSE response

\* the response validate returns for what the validator reported
ValidateResponse(c, target, result, size, findings) ==
    AddIdWarning(
        AddSizeWarning(
            AddFindingSuggestions(PrepareResponse(target, result, size, findings),
                                  findings, c.version),
            size),
        c)

\* sum(1 for item in card.body or [] if hasattr(item, "url"))
ImageCount(c) ==
    LET body == BodyOrEmpty(c) IN Cardinality({i \in 1..Len(body) : HasUrl(body[i])})

\* sum(1 for item in card.body or [] if hasattr(item, "items"))
ContainerCount(c) ==
    LET body == BodyOrEmpty(c) IN Cardinality({i \in 1..Len(body) : HasItems(body[i])})

MaxElementsBeforeAdvice == 10
MaxContainersBeforeAdvice == 3

SizeSummary(size, limit) ==
    Msg("Card size ({card_size:.2f}KB) is {card_size/size_limit*100:.1f}% of the limit.",
        <<>>, <<size, limit>>)

ReduceElementsSuggestion ==
    Msg("Consider reducing the number of elements in the card.", <<>>, <<>>)

ImagesSuggestion(n) ==
    Msg("Card contains {image_count} images. Consider reducing image count or size.",
        <<>>, <<n>>)

ContainersSuggestion(n) ==
    Msg("Card contains {container_count} containers. Consider simplifying the structure.",
        <<>>, <<n>>)

\* the list suggest_optimizations returns for a card of this size
Optimizations(c, target, size) ==
    LET size_limit == SizeLimit(target)
    IN  IF GreaterThanFraction(size, size_limit, 7)
        THEN << SizeSummary(size, size_limit) >>
             \o (IF Len(BodyOrEmpty(c)) > MaxElementsBeforeAdvice
                 THEN << ReduceElementsSuggestion >> ELSE <<>>)
             \o (IF ImageCount(c) > 0
                 THEN << ImagesSuggestion(ImageCount(c)) >> ELSE <<>>)
             \o (IF ContainerCount(c) > MaxContainersBeforeAdvice
                 THEN << ContainersSuggestion(ContainerCount(c)) >> ELSE <<>>)
        ELSE <<>>

(***************************************************************************)
(* State: the card under construction, the ValidationUtility (its target   *)
(* and its validator), the DeliveryManager held by the caller, and what    *)
(* the last call returned.  repeated records that the last call was a      *)
(* validate directly following a validate of the same card by the same     *)
(* utility.                                                                *)
(***************************************************************************)
NoManager == [made |-> FALSE]

\* the last call: its name, its string arguments, whether it raised, and the
\* value returned (the error when it raised)
Returned(op, args, value) == [op |-> op, args |-> args, raised |-> FALSE, value |-> value]
Raised(op, args, error) == [op |-> op, args |-> args, raised |-> TRUE, value |-> error]

\* ValidationUtility(target): both branches create the Teams validator
ValidationUtility_init(target) ==
    [ target |-> target,
      validator |-> IF Lower(target) = "teams"
                    THEN create_validator_microsoft_teams
                    ELSE create_validator_microsoft_teams ]

\* card sizes (hundredths of a KB) the submitted data is chosen to reach
SizesOfInterest == {2240, 2241, 2800, 2801, 3000, 3200, 3201, 4000, 4001}

\* the least number of serialized bytes that card_size reports as size
BytesFor(size) ==
    LET around == (size * 1024) \div 100
        fits == {b \in (around - 12)..(around + 12) : b >= 0 /\ RoundKB(b) = size}
    IN  CHOOSE b \in fits : \A o \in fits : b <= o

\* lengths of the data of the one submit action set on card c
DataLens(c, sizes) ==
    LET without == JsonBytes([c EXCEPT !.actions = <<>>])
    IN  {0} \cup { n \in { BytesFor(s) - without - ActionBaseBytes : s \in sizes } :
                     n > 0 }

\* self.client: None, or the TeamsClient made for a webhook URL
NoClient == [set |-> FALSE, webhook_url |-> None]
TeamsClient(webhook_url) == [set |-> TRUE, webhook_url |-> webhook_url]

\* DeliveryManager._initialize_client, on a manager with these fields:
\* the fields after the call, or the error raised
initialize_client(manager) ==
    IF manager.platform = "teams"
    THEN [raised |-> FALSE,
          manager |-> [manager EXCEPT !.client = TeamsClient(manager.webhook_url)]]
    ELSE [raised |-> TRUE, manager |-> manager]

\* the fields DeliveryManager.__init__ sets before it looks at webhook_url
ManagerFields(webhook_url, platform) ==
    [ made |-> TRUE,
      platform |-> Lower(platform),
      webhook_url |-> webhook_url,
      validation_utility |-> ValidationUtility_init(platform),
      client |-> NoClient ]

Init ==
    /\ card \in { NewCard(v, b) : v \in Versions, b \in BOOLEAN }
    /\ vu = ValidationUtility_init("teams")
    /\ dm = NoManager
    /\ ret = Returned("new", <<>>, None)
    /\ repeated = FALSE

\* a new card is started
new_card(version, has_body) ==
    /\ card' = NewCard(version, has_body)
    /\ ret' = Returned("new", <<>>, None)
    /\ UNCHANGED <<vu, dm>>
    /\ repeated' = FALSE

\* card.add_item(item)
add_item(item) ==
    /\ Len(card.body) < MaxBody
    /\ card' = [card EXCEPT !.has_body = TRUE, !.body = Append(@, item)]
    /\ ret' = Returned("add_item", <<>>, None)
    /\ UNCHANGED <<vu, dm>>
    /\ repeated' = FALSE

\* card.actions = action_items
set_actions(action_items) ==
    /\ card' = [card EXCEPT !.actions = action_items]
    /\ ret' = Returned("set_actions", <<>>, None)
    /\ UNCHANGED <<vu, dm>>
    /\ repeated' = FALSE

\* the caller replaces its ValidationUtility by ValidationUtility(target)
construct_utility(target) ==
    /\ vu' = ValidationUtility_init(target)
    /\ ret' = Returned("ValidationUtility", <<target>>, None)
    /\ UNCHANGED <<card, dm>>
    /\ repeated' = FALSE

\* validate storing "card.body or []" back into the card
validate_NormalizingBody ==
    LET ran == CardValidator_validate(vu.validator, card)
        result == CardValidator_result(ran)
        size == card_size_of(card)
        details == ran.findings
    IN  /\ vu' = [vu EXCEPT !.validator = ran]
        /\ ret' = Returned("validate", <<>>,
                           ValidateResponse(card, vu.target, result, size, details))
        /\ repeated' = (ret.op = "validate")
        /\ card' = [card EXCEPT !.has_body = TRUE]
        /\ UNCHANGED dm

\* validate reading details() before it runs the validator
validate_StaleDetails ==
    LET ran == CardValidator_validate(vu.validator, card)
        result == CardValidator_result(ran)
        size == card_size_of(card)
        details == vu.validator.findings
    IN  /\ vu' = [vu EXCEPT !.validator = ran]
        /\ ret' = Returned("validate", <<>>,
                           ValidateResponse(card, vu.target, result, size, details))
        /\ repeated' = (ret.op = "validate")
        /\ UNCHANGED <<card, dm>>

\* ValidationUtility.validate(card)
validate ==
    LET ran == CardValidator_validate(vu.validator, card)
        result == CardValidator_result(ran)
        size == card_size_of(card)
        details == ran.findings
    IN  /\ vu' = [vu EXCEPT !.validator = ran]
        /\ ret' = Returned("validate", <<>>,
                           ValidateResponse(card, vu.target, result, size, details))
        /\ repeated' = (ret.op = "validate")
        /\ UNCHANGED <<card, dm>>

\* ValidationUtility.get_size(card)
get_size ==
    /\ ret' = Returned("get_size", <<>>, card_size_of(card))
    /\ UNCHANGED <<card, vu, dm>>
    /\ repeated' = FALSE

\* ValidationUtility.suggest_optimizations(card)
suggest_optimizations ==
    /\ ret' = Returned("suggest_optimizations", <<>>,
                       Optimizations(card, vu.target, card_size_of(card)))
    /\ UNCHANGED <<card, vu, dm>>
    /\ repeated' = FALSE

\* the constructor leaving the client unset where it should raise
construct_manager_NoRaise(webhook_url, platform) ==
    /\ dm' = IF Truthy(webhook_url) /\ Lower(platform) = "teams"
             THEN initialize_client(ManagerFields(webhook_url, platform)).manager
             ELSE ManagerFields(webhook_url, platform)
    /\ ret' = Returned("DeliveryManager", <<webhook_url, platform>>, None)
    /\ repeated' = FALSE
    /\ UNCHANGED <<card, vu>>

\* the caller's manager = DeliveryManager(webhook_url, platform); when the
\* constructor raises, the caller keeps the manager it had
construct_manager(webhook_url, platform) ==
    LET fields == ManagerFields(webhook_url, platform)
        made == IF Truthy(webhook_url)
                THEN initialize_client(fields)
                ELSE [raised |-> FALSE, manager |-> fields]
    IN  /\ dm' = IF made.raised THEN dm ELSE made.manager
        /\ ret' = IF made.raised
                  THEN Raised("DeliveryManager", <<webhook_url, platform>>, "ValueError")
                  ELSE Returned("DeliveryManager", <<webhook_url, platform>>, None)
        /\ repeated' = FALSE
        /\ UNCHANGED <<card, vu>>

\* DeliveryManager.set_webhook_url(webhook_url): the URL is stored before the
\* client is made, so it stays stored when making the client raises
set_webhook_url(webhook_url) ==
    /\ dm.made
    /\ LET stored == [dm EXCEPT !.webhook_url = webhook_url]
           made == initialize_client(stored)
       IN  /\ dm' = made.manager
           /\ ret' = IF made.raised
                     THEN Raised("set_webhook_url", <<webhook_url>>, "ValueError")
                     ELSE Returned("set_webhook_url", <<webhook_url>>, None)
    /\ repeated' = FALSE
    /\ UNCHANGED <<card, vu>>

Next ==
    \/ \E v \in Versions, b \in BOOLEAN : new_card(v, b)
    \/ \E item \in Elements : add_item(item)
    \/ \E n \in DataLens(card, SizesOfInterest) : set_actions(<< ActionSubmit(n) >>)
    \/ \E t \in Targets : construct_utility(t)
    \/ validate
    \/ get_size
    \/ suggest_optimizations

Spec == Init /\ [][Next]_vars

(***************************************************************************)
(* Construction and configuration of the utility and the manager.          *)
(***************************************************************************)
NextConfig ==
    \/ \E t \in Targets : construct_utility(t)
    \/ \E u \in WebhookUrls, p \in Targets : construct_manager(u, p)
    \/ \E u \in WebhookUrls : set_webhook_url(u)

SpecConfig == Init /\ [][NextConfig]_vars

(***************************************************************************)
(* suggest_optimizations and get_size on finished cards: the body is a run *)
(* of text blocks, then images, then containers; the card carries one      *)
(* submit action whose data brings it to the size looked at.               *)
(***************************************************************************)
Repeat(item, n) == [i \in 1..n |-> item]

OptBodies ==
    { Repeat(TextBlock("title"), a) \o Repeat(Image(None), b) \o Repeat(Container(None), c) :
        a \in 0..MaxOptTexts, b \in 0..MaxOptImages, c \in 0..MaxOptContainers }

OptSizes == {1959, 1960, 1961, 2800, 2801}

OptCards ==
    UNION { LET bare == [version |-> DEFAULT_CARD_VERSION, has_body |-> TRUE,
                         body |-> body, actions |-> <<>>]
            IN  { [bare EXCEPT !.actions = << ActionSubmit(n) >>] :
                    n \in DataLens(bare, OptSizes) }
            : body \in OptBodies }

InitOpt ==
    /\ card \in OptCards
    /\ vu \in { ValidationUtility_init(t) : t \in Targets }
    /\ dm = NoManager
    /\ ret = Returned("new", <<>>, None)
    /\ repeated = FALSE

NextOpt ==
    \/ suggest_optimizations
    \/ get_size

SpecOpt == InitOpt /\ [][NextOpt]_vars

(***************************************************************************)
(* DeliveryManager.send.  The value of a send call is the result dict      *)
(* together with the calls send made to its collaborators, in order: the   *)
(* validation utility and the delivery client.  What client.send does is   *)
(* an input of the call: a response with a status code, or an exception.   *)
(***************************************************************************)
StatusCodes == {199, 200, 204, 299, 300, 404, 500}

\* what client.send(card) does: [raised, status_code]
ClientOutcomes ==
    { [raised |-> FALSE, status_code |-> code] : code \in StatusCodes }
        \cup { [raised |-> TRUE, status_code |-> 0] }

ValidateCall == [call |-> "validation_utility.validate", raised |-> FALSE, status_code |-> 0]

ClientCall(outcome) ==
    [call |-> "client.send", raised |-> outcome.raised, status_code |-> outcome.status_code]

\* self.validation_utility.validate(card): the utility afterwards and the
\* report returned
validate_before_send(utility, c) ==
    LET ran == CardValidator_validate(utility.validator, c)
    IN  [ utility |-> [utility EXCEPT !.validator = ran],
          report |-> ValidateResponse(c, utility.target, CardValidator_result(ran),
                                      card_size_of(c), ran.findings) ]

NoClientMessage ==
    Msg("No webhook URL configured. Use set_webhook_url() first.", <<>>, <<>>)
ValidationFailedMessage ==
    Msg("Card validation failed. See validation details.", <<>>, <<>>)
DeliveredMessage == Msg("Card delivered successfully", <<>>, <<>>)
DeliveryFailedMessage(code) == Msg("Delivery failed: {response.text}", <<>>, <<code>>)
DeliveryErrorMessage == Msg("Error delivering card: {str(e)}", <<>>, <<>>)

\* the try block with an upper bound of <= 300
Deliver_InclusiveUpperBound(result, outcome) ==
    IF outcome.raised
    THEN [ raised |-> FALSE,
           result |-> result @@ [success |-> FALSE, message |-> DeliveryErrorMessage] ]
    ELSE LET ok == 200 <= outcome.status_code /\ outcome.status_code <= 300
         IN  [ raised |-> FALSE,
               result |-> result @@
                   [ success |-> ok,
                     status_code |-> outcome.status_code,
                     message |-> IF ok THEN DeliveredMessage
                                 ELSE DeliveryFailedMessage(outcome.status_code) ] ]

\* the client call without the try/except around it
Deliver_NoExcept(result, outcome) ==
    IF outcome.raised
    THEN [ raised |-> TRUE, result |-> result ]
    ELSE LET ok == 200 <= outcome.status_code /\ outcome.status_code < 300
         IN  [ raised |-> FALSE,
               result |-> result @@
                   [ success |-> ok,
                     status_code |-> outcome.status_code,
                     message |-> IF ok THEN DeliveredMessage
                                 ELSE DeliveryFailedMessage(outcome.status_code) ] ]

\* the try block of send: the result dict filled in from what client.send
\* did; raised says whether an exception leaves send
Deliver(result, outcome) ==
    IF outcome.raised
    THEN [ raised |-> FALSE,
           result |-> result @@ [success |-> FALSE, message |-> DeliveryErrorMessage] ]
    ELSE LET ok == 200 <= outcome.status_code /\ outcome.status_code < 300
         IN  [ raised |-> FALSE,
               result |-> result @@
                   [ success |-> ok,
                     status_code |-> outcome.status_code,
                     message |-> IF ok THEN DeliveredMessage
                                 ELSE DeliveryFailedMessage(outcome.status_code) ] ]

\* send without the early return on a failed validation
SendOutcome_NoEarlyReturn(manager, c, do_validate, outcome) ==
    IF ~manager.client.set
    THEN [ raised |-> FALSE, manager |-> manager, calls |-> <<>>,
           result |-> [success |-> FALSE, status_code |-> None, message |-> NoClientMessage] ]
    ELSE LET checked == validate_before_send(manager.validation_utility, c)
             after == IF do_validate
                      THEN [manager EXCEPT !.validation_utility = checked.utility]
                      ELSE manager
             result == IF do_validate THEN [validation |-> checked.report] ELSE <<>>
             before == IF do_validate THEN << ValidateCall >> ELSE <<>>
             sent == Deliver(result, outcome)
         IN  [ raised |-> sent.raised, manager |-> after,
               calls |-> Append(before, ClientCall(outcome)),
               result |-> sent.result ]

\* DeliveryManager.send(card, validate): the manager afterwards, the calls
\* made, and the result dict returned (or raised)
SendOutcome(manager, c, do_validate, outcome) ==
    IF ~manager.client.set
    THEN [ raised |-> FALSE, manager |-> manager, calls |-> <<>>,
           result |-> [success |-> FALSE, status_code |-> None, message |-> NoClientMessage] ]
    ELSE LET checked == validate_before_send(manager.validation_utility, c)
             after == IF do_validate
                      THEN [manager EXCEPT !.validation_utility = checked.utility]
                      ELSE manager
             result == IF do_validate THEN [validation |-> checked.report] ELSE <<>>
             before == IF do_validate THEN << ValidateCall >> ELSE <<>>
         IN  IF do_validate /\ ~checked.report.valid
             THEN [ raised |-> FALSE, manager |-> after, calls |-> before,
                    result |-> result @@
                        [success |-> FALSE, message |-> ValidationFailedMessage] ]
             ELSE LET sent == Deliver(result, outcome)
                  IN  [ raised |-> sent.raised, manager |-> after,
                        calls |-> Append(before, ClientCall(outcome)),
                        result |-> sent.result ]

BoolText(b) == IF b THEN "True" ELSE "False"

\* the caller's manager.send(card, validate=do_validate)
send(do_validate, outcome) ==
    /\ dm.made
    /\ LET out == SendOutcome(dm, card, do_validate, outcome)
       IN  /\ dm' = out.manager
           /\ ret' = [ op |-> "send", args |-> << BoolText(do_validate) >>,
                       raised |-> out.raised,
                       value |-> [result |-> out.result, calls |-> out.calls] ]
    /\ repeated' = FALSE
    /\ UNCHANGED <<card, vu>>

\* the cards handed to send: an empty one, a small valid one, and one above
\* the 28 KB limit of the Teams validator
DeliveryCards ==
    { NewCard(DEFAULT_CARD_VERSION, TRUE),
      [NewCard(DEFAULT_CARD_VERSION, TRUE) EXCEPT !.body = << TextBlock("title") >>],
      [NewCard("1.0", TRUE) EXCEPT !.body = << Table(None) >>],
      [NewCard(DEFAULT_CARD_VERSION, TRUE) EXCEPT
           !.body = << TextBlock("title") >>, !.actions = << ActionSubmit(30000) >>] }

InitDelivery ==
    /\ card \in DeliveryCards
    /\ vu = ValidationUtility_init("teams")
    /\ dm = NoManager
    /\ ret = Returned("new", <<>>, None)
    /\ repeated = FALSE

NextDelivery ==
    \/ \E u \in WebhookUrls, p \in Targets : construct_manager(u, p)
    \/ \E u \in WebhookUrls : set_webhook_url(u)
    \/ \E v \in BOOLEAN, o \in ClientOutcomes : send(v, o)

SpecDelivery == InitDelivery /\ [][NextDelivery]_vars

(***************************************************************************)
(* DataConnector.  Texts are strings.  A Python value is a record          *)
(* [t, s, keys, items]: t is "str", "int", "bool", "null", "list" or       *)
(* "dict"; s is what str() gives for a scalar; items are the elements of   *)
(* a list, or the values of a dict in insertion order with keys[i] the     *)
(* key of items[i].                                                        *)
(***************************************************************************)
PyStrValue(s) == [t |-> "str", s |-> s, keys |-> <<>>, items |-> <<>>]
PyInt(digits) == [t |-> "int", s |-> digits, keys |-> <<>>, items |-> <<>>]
PyBool(b) == [t |-> "bool", s |-> IF b THEN "True" ELSE "False", keys |-> <<>>, items |-> <<>>]
PyNone == [t |-> "null", s |-> "None", keys |-> <<>>, items |-> <<>>]
PyList(items) == [t |-> "list", s |-> "", keys |-> <<>>, items |-> items]
PyDict(keys, values) == [t |-> "dict", s |-> "", keys |-> keys, items |-> values]

IsDict(v) == v.t = "dict"
IsList(v) == v.t = "list"

\* d[key] = value: a new key goes last, an existing key keeps its place
DictPut(d, key, value) ==
    IF \E i \in DOMAIN d.keys : d.keys[i] = key
    THEN PyDict(d.keys, [i \in DOMAIN d.items |->
                            IF d.keys[i] = key THEN value ELSE d.items[i]])
    ELSE PyDict(Append(d.keys, key), Append(d.items, value))

\* d.get(key, default)
DictGet(d, key, default) ==
    IF \E i \in DOMAIN d.keys : d.keys[i] = key
    THEN d.items[CHOOSE i \in DOMAIN d.keys : d.keys[i] = key]
    ELSE default

RECURSIVE Join(_, _)
\* sep.join(parts)
Join(parts, sep) ==
    IF parts = <<>> THEN ""
    ELSE IF Len(parts) = 1 THEN parts[1]
    ELSE parts[1] \o sep \o Join(Tail(parts), sep)

RECURSIVE PyRepr(_)
\* repr(v)
PyRepr(v) ==
    IF v.t = "str" THEN "'" \o v.s \o "'"
    ELSE IF v.t = "list"
    THEN "[" \o Join([i \in DOMAIN v.items |-> PyRepr(v.items[i])], ", ") \o "]"
    ELSE IF v.t = "dict"
    THEN "{" \o Join([i \in DOMAIN v.items |->
                        "'" \o v.keys[i] \o "': " \o PyRepr(v.items[i])], ", ") \o "}"
    ELSE v.s

\* str(v)
PyStr(v) == IF v.t = "str" THEN v.s ELSE PyRepr(v)

RECURSIVE Spaces(_)
Spaces(n) == IF n = 0 THEN "" ELSE " " \o Spaces(n - 1)

RECURSIVE JsonDumps(_, _, _)
\* json.dumps(v, indent=indent), at nesting level
JsonDumps(v, indent, level) ==
    LET inner == "\n" \o Spaces(indent * (level + 1))
        close == "\n" \o Spaces(indent * level)
    IN  IF v.t = "str" THEN "\"" \o v.s \o "\""
        ELSE IF v.t = "int" THEN v.s
        ELSE IF v.t = "bool" THEN (IF v.s = "True" THEN "true" ELSE "false")
        ELSE IF v.t = "null" THEN "null"
        ELSE IF v.items = <<>> THEN (IF v.t = "list" THEN "[]" ELSE "{}")
        ELSE IF v.t = "list"
        THEN "[" \o inner
                 \o Join([i \in DOMAIN v.items |-> JsonDumps(v.items[i], indent, level + 1)],
                         "," \o inner)
                 \o close \o "]"
        ELSE "{" \o inner
                 \o Join([i \in DOMAIN v.items |->
                            "\"" \o v.keys[i] \o "\": "
                                \o JsonDumps(v.items[i], indent, level + 1)],
                         "," \o inner)
                 \o close \o "}"

(***************************************************************************)
(* json.loads on the texts of the model: objects, arrays, strings without  *)
(* escapes, non-negative integers, true, false and null, with spaces       *)
(* between tokens.  A parse is [ok, value, next]: next is the index after  *)
(* the value.                                                              *)
(***************************************************************************)
Char(text, i) == IF i >= 1 /\ i <= Len(text) THEN SubSeq(text, i, i) ELSE ""

Digits == {"0", "1", "2", "3", "4", "5", "6", "7", "8", "9"}

JSONDecodeError == [ok |-> FALSE, value |-> PyNone, next |-> 0]

Parsed(value, next) == [ok |-> TRUE, value |-> value, next |-> next]

RECURSIVE SkipSpaces(_, _)
SkipSpaces(text, i) ==
    IF Char(text, i) \in {" ", "\n"} THEN SkipSpaces(text, i + 1) ELSE i

RECURSIVE FindQuote(_, _)
\* index of the next double quote at or after i, 0 when there is none
FindQuote(text, i) ==
    IF i > Len(text) THEN 0
    ELSE IF Char(text, i) = "\"" THEN i
    ELSE FindQuote(text, i + 1)

RECURSIVE EndOfDigits(_, _)
EndOfDigits(text, i) ==
    IF Char(text, i) \in Digits THEN EndOfDigits(text, i + 1) ELSE i

StartsWith(text, i, word) ==
    i + Len(word) - 1 <= Len(text) /\ SubSeq(text, i, i + Len(word) - 1) = word

ParseString(text, i) ==
    LET close == FindQuote(text, i + 1)
    IN  IF Char(text, i) # "\"" \/ close = 0 THEN JSONDecodeError
        ELSE Parsed(PyStrValue(SubSeq(text, i + 1, close - 1)), close + 1)

RECURSIVE ParseValue(_, _)
RECURSIVE ParseElements(_, _, _)
RECURSIVE ParseMembers(_, _, _)

\* the elements of an array from index i on, after those in done
ParseElements(text, i, done) ==
    LET element == ParseValue(text, SkipSpaces(text, i))
        after == SkipSpaces(text, element.next)
    IN  IF ~element.ok THEN JSONDecodeError
        ELSE IF Char(text, after) = ","
        THEN ParseElements(text, after + 1, Append(done, element.value))
        ELSE IF Char(text, after) = "]"
        THEN Parsed(PyList(Append(done, element.value)), after + 1)
        ELSE JSONDecodeError

\* the members of an object from index i on, after those in done
ParseMembers(text, i, done) ==
    LET key == ParseString(text, SkipSpaces(text, i))
        colon == SkipSpaces(text, key.next)
        member == ParseValue(text, SkipSpaces(text, colon + 1))
        after == SkipSpaces(text, member.next)
    IN  IF ~key.ok \/ Char(text, colon) # ":" THEN JSONDecodeError
        ELSE IF ~member.ok THEN JSONDecodeError
        ELSE IF Char(text, after) = ","
        THEN ParseMembers(text, after + 1, DictPut(done, key.value.s, member.value))
        ELSE IF Char(text, after) = "}"
        THEN Parsed(DictPut(done, key.value.s, member.value), after + 1)
        ELSE JSONDecodeError

ParseValue(text, i) ==
    LET c == Char(text, i)
        digits == EndOfDigits(text, i)
    IN  IF c = "\"" THEN ParseString(text, i)
        ELSE IF c \in Digits
        THEN IF c = "0" /\ digits > i + 1 THEN JSONDecodeError
             ELSE Parsed(PyInt(SubSeq(text, i, digits - 1)), digits)
        ELSE IF StartsWith(text, i, "true") THEN Parsed(PyBool(TRUE), i + 4)
        ELSE IF StartsWith(text, i, "false") THEN Parsed(PyBool(FALSE), i + 5)
        ELSE IF StartsWith(text, i, "null") THEN Parsed(PyNone, i + 4)
        ELSE IF c = "["
        THEN IF Char(text, SkipSpaces(text, i + 1)) = "]"
             THEN Parsed(PyList(<<>>), SkipSpaces(text, i + 1) + 1)
             ELSE ParseElements(text, i + 1, <<>>)
        ELSE IF c = "{"
        THEN IF Char(text, SkipSpaces(text, i + 1)) = "}"
             THEN Parsed(PyDict(<<>>, <<>>), SkipSpaces(text, i + 1) + 1)
             ELSE ParseMembers(text, i + 1, PyDict(<<>>, <<>>))
        ELSE JSONDecodeError

\* json.loads(text): ok is FALSE when JSONDecodeError is raised
json_loads(text) ==
    LET parsed == ParseValue(text, SkipSpaces(text, 1))
    IN  IF parsed.ok /\ SkipSpaces(text, parsed.next) = Len(text) + 1
        THEN parsed
        ELSE JSONDecodeError

(***************************************************************************)
(* csv.reader(io.StringIO(text)) with the default dialect, on texts of     *)
(* ordinary characters, commas, double quotes and newlines.  The reader    *)
(* is in one of five states; rows are the finished records, row the        *)
(* fields of the record being read, field the text of the current field.   *)
(***************************************************************************)
RECURSIVE CsvRead(_, _, _, _, _, _)
CsvRead(text, i, state, rows, row, field) ==
    LET c == Char(text, i)
        saved == Append(row, field)
    IN  IF i > Len(text)
        THEN IF state = "START_RECORD" THEN rows ELSE Append(rows, saved)
        ELSE IF state \in {"START_RECORD", "START_FIELD"}
        THEN IF c = "\n"
             THEN CsvRead(text, i + 1, "START_RECORD",
                          Append(rows, IF state = "START_RECORD" THEN <<>> ELSE saved),
                          <<>>, "")
             ELSE IF c = "\"" THEN CsvRead(text, i + 1, "IN_QUOTED_FIELD", rows, row, "")
             ELSE IF c = "," THEN CsvRead(text, i + 1, "START_FIELD", rows, saved, "")
             ELSE CsvRead(text, i + 1, "IN_FIELD", rows, row, c)
        ELSE IF state = "IN_FIELD"
        THEN IF c = "\n" THEN CsvRead(text, i + 1, "START_RECORD", Append(rows, saved), <<>>, "")
             ELSE IF c = "," THEN CsvRead(text, i + 1, "START_FIELD", rows, saved, "")
             ELSE CsvRead(text, i + 1, "IN_FIELD", rows, row, field \o c)
        ELSE IF state = "IN_QUOTED_FIELD"
        THEN IF c = "\"" THEN CsvRead(text, i + 1, "QUOTE_IN_QUOTED_FIELD", rows, row, field)
             ELSE CsvRead(text, i + 1, "IN_QUOTED_FIELD", rows, row, field \o c)
        ELSE \* QUOTE_IN_QUOTED_FIELD
             IF c = "\"" THEN CsvRead(text, i + 1, "IN_QUOTED_FIELD", rows, row, field \o c)
             ELSE IF c = "," THEN CsvRead(text, i + 1, "START_FIELD", rows, saved, "")
             ELSE IF c = "\n"
             THEN CsvRead(text, i + 1, "START_RECORD", Append(rows, saved), <<>>, "")
             ELSE CsvRead(text, i + 1, "IN_FIELD", rows, row, field \o c)

\* list(csv.reader(io.StringIO(text)))
csv_rows(text) == CsvRead(text, 1, "START_RECORD", <<>>, <<>>, "")

(***************************************************************************)
(* The elements DataConnector builds.                                      *)
(***************************************************************************)
BulletPrefix == "â€¢ "

\* ElementFactory.create_text(text, weight=weight, color=color)
create_text(text, weight, color) ==
    [ type |-> "TextBlock", text |-> text, wrap |-> TRUE, is_subtle |-> FALSE,
      weight |-> weight, color |-> color ]

\* TextBlock(text=text, wrap=True)
ListTextBlock(text) == [type |-> "TextBlock", text |-> text, wrap |-> TRUE]

Fact(title, value) == [title |-> title, value |-> value]
FactSet(facts) == [type |-> "FactSet", facts |-> facts]
Column(items, width) == [type |-> "Column", items |-> items, width |-> width]
ColumnSet(columns) == [type |-> "ColumnSet", columns |-> columns]
RowContainer(items, style, separator) ==
    [type |-> "Container", items |-> items, style |-> style, separator |-> separator]

\* create_fact_set with the facts in reverse order
create_fact_set_Reversed(facts) ==
    FactSet([i \in DOMAIN facts |->
                Fact(facts[Len(facts) + 1 - i][1], facts[Len(facts) + 1 - i][2])])

\* create_fact_set(facts): facts are the <<title, value>> entries of the dict
create_fact_set(facts) ==
    FactSet([i \in DOMAIN facts |-> Fact(facts[i][1], facts[i][2])])

\* create_list with item indices counted from 0
create_list_ZeroBased(items, is_numbered) ==
    [i \in DOMAIN items |->
        ListTextBlock((IF is_numbered THEN ToString(i - 1) \o ". " ELSE BulletPrefix)
                          \o items[i])]

\* create_list(items, is_numbered)
create_list(items, is_numbered) ==
    [i \in DOMAIN items |->
        ListTextBlock((IF is_numbered THEN ToString(i) \o ". " ELSE BulletPrefix)
                          \o items[i])]

\* the column_widths argument: not given (None), or a list
NoWidths == [given |-> FALSE, widths |-> <<>>]
Widths(widths) == [given |-> TRUE, widths |-> widths]

Min(a, b) == IF a < b THEN a ELSE b

\* the header container of create_table
HeaderContainer(headers, widths) ==
    RowContainer(
        << ColumnSet([i \in DOMAIN headers |->
                         Column(<< create_text(headers[i], "bolder", None) >>, widths[i])]) >>,
        "emphasis", TRUE)

\* the data row container with the header row counted in the row index
DataContainer_HeaderCounted(row, row_idx, widths, alternate_row_style) ==
    RowContainer(
        << ColumnSet([i \in 1..Min(Len(row), Len(widths)) |->
                         Column(<< create_text(row[i], None, None) >>, widths[i])]) >>,
        IF alternate_row_style /\ (row_idx + 1) % 2 = 1 THEN "accent" ELSE None,
        FALSE)

\* the container of the data row at 0-based index row_idx
DataContainer(row, row_idx, widths, alternate_row_style) ==
    RowContainer(
        << ColumnSet([i \in 1..Min(Len(row), Len(widths)) |->
                         Column(<< create_text(row[i], None, None) >>, widths[i])]) >>,
        IF alternate_row_style /\ row_idx % 2 = 1 THEN "accent" ELSE None,
        FALSE)

\* create_table(headers, rows, column_widths, has_header_row,
\* alternate_row_style): the elements returned, or the exception raised
create_table(headers, rows, column_widths, has_header_row, alternate_row_style) ==
    LET widths == IF column_widths.given THEN column_widths.widths
                  ELSE [i \in DOMAIN headers |-> 1]
        data == [k \in DOMAIN rows |->
                    DataContainer(rows[k], k - 1, widths, alternate_row_style)]
    IN  IF has_header_row /\ Len(widths) < Len(headers)
        THEN [raised |-> TRUE, error |-> "IndexError", value |-> <<>>]
        ELSE [ raised |-> FALSE, error |-> None,
               value |-> IF has_header_row
                         THEN << HeaderContainer(headers, widths) >> \o data
                         ELSE data ]

\* the orders in which iterating over a set of keys can give them
Orderings(keys) ==
    { order \in [1..Cardinality(keys) -> keys] :
        \A i, j \in DOMAIN order : i # j => order[i] # order[j] }

\* the json_data argument: a text, or data already parsed
JsonText(text) == [is_str |-> TRUE, text |-> text, value |-> PyNone]
JsonData(value) == [is_str |-> FALSE, text |-> "", value |-> value]

InvalidJsonText == create_text("Invalid JSON data", None, "attention")

\* the value of a fact: str(v), or json.dumps(v, indent=2) for a dict or list
FactValue(v) == IF IsDict(v) \/ IsList(v) THEN JsonDumps(v, 2, 0) ELSE PyStr(v)

\* the rows of the table built from a list of dicts under the headers
RecordRows(records, headers) ==
    [k \in DOMAIN records |->
        [j \in DOMAIN headers |-> PyStr(DictGet(records[k], headers[j], PyStrValue("")))]]

\* all_keys after the update loop: a set
AllKeys(records) ==
    UNION { { records[k].keys[i] : i \in DOMAIN records[k].keys } : k \in DOMAIN records }

\* the elements from_json builds from a dict
FromDict(data) ==
    << create_fact_set([i \in DOMAIN data.items |->
                           <<data.keys[i], FactValue(data.items[i])>>]) >>

\* the elements from_json builds from a list of dicts, for each order that
\* list(all_keys) can have
FromRecords(records) ==
    { create_table(headers, RecordRows(records, headers), NoWidths, TRUE, TRUE).value :
        headers \in Orderings(AllKeys(records)) }

\* the elements from_json builds from any other list
FromList(items) == create_list([i \in DOMAIN items |-> PyStr(items[i])], FALSE)

\* from_json with a JSONDecodeError that is not caught
from_json_NoExcept(json_data) ==
    LET parsed == IF json_data.is_str THEN json_loads(json_data.text)
                  ELSE Parsed(json_data.value, 0)
        data == parsed.value
    IN  IF ~parsed.ok THEN { Raised("from_json", <<json_data>>, "JSONDecodeError") }
        ELSE { Returned("from_json", <<json_data>>, elements) :
                 elements \in
                    IF IsDict(data) THEN { FromDict(data) }
                    ELSE IF IsList(data) /\ data.items # <<>>
                            /\ \A i \in DOMAIN data.items : IsDict(data.items[i])
                    THEN FromRecords(data.items)
                    ELSE IF IsList(data) THEN { FromList(data.items) }
                    ELSE { <<>> } }

\* from_json taking the table branch when some element of the list is a dict
from_json_AnyDict(json_data) ==
    LET parsed == IF json_data.is_str THEN json_loads(json_data.text)
                  ELSE Parsed(json_data.value, 0)
        data == parsed.value
    IN  IF ~parsed.ok THEN { Returned("from_json", <<json_data>>, << InvalidJsonText >>) }
        ELSE { Returned("from_json", <<json_data>>, elements) :
                 elements \in
                    IF IsDict(data) THEN { FromDict(data) }
                    ELSE IF IsList(data) /\ data.items # <<>>
                            /\ \E i \in DOMAIN data.items : IsDict(data.items[i])
                    THEN FromRecords(SelectSeq(data.items, IsDict))
                    ELSE IF IsList(data) THEN { FromList(data.items) }
                    ELSE { <<>> } }

\* from_json sending a value that is neither a dict nor a list to create_list
from_json_ScalarAsList(json_data) ==
    LET parsed == IF json_data.is_str THEN json_loads(json_data.text)
                  ELSE Parsed(json_data.value, 0)
        data == parsed.value
    IN  IF ~parsed.ok THEN { Returned("from_json", <<json_data>>, << InvalidJsonText >>) }
        ELSE { Returned("from_json", <<json_data>>, elements) :
                 elements \in
                    IF IsDict(data) THEN { FromDict(data) }
                    ELSE IF IsList(data) /\ data.items # <<>>
                            /\ \A i \in DOMAIN data.items : IsDict(data.items[i])
                    THEN FromRecords(data.items)
                    ELSE IF IsList(data) THEN { FromList(data.items) }
                    ELSE { FromList(<< data >>) } }

\* from_json(json_data): the call records it can end with, one for each
\* order the set of keys can be iterated in
from_json(json_data) ==
    LET parsed == IF json_data.is_str THEN json_loads(json_data.text)
                  ELSE Parsed(json_data.value, 0)
        data == parsed.value
    IN  IF ~parsed.ok THEN { Returned("from_json", <<json_data>>, << InvalidJsonText >>) }
        ELSE { Returned("from_json", <<json_data>>, elements) :
                 elements \in
                    IF IsDict(data) THEN { FromDict(data) }
                    ELSE IF IsList(data) /\ data.items # <<>>
                            /\ \A i \in DOMAIN data.items : IsDict(data.items[i])
                    THEN FromRecords(data.items)
                    ELSE IF IsList(data) THEN { FromList(data.items) }
                    ELSE { <<>> } }

\* the csv_data argument: a str, or a bytes object
CsvText(text) == [is_str |-> TRUE, text |-> text]
CsvBytes(text) == [is_str |-> FALSE, text |-> text]

EmptyCsvText == create_text("Empty CSV data", None, "attention")
CsvErrorText(error) == create_text("Error parsing CSV: " \o error, None, "attention")

StringIOTypeError == "initial_value must be str or None, not bytes"

\* from_csv without the try/except around its body
from_csv_NoExcept(csv_data) ==
    LET rows == csv_rows(csv_data.text)
        table == create_table(rows[1], Tail(rows), NoWidths, TRUE, TRUE)
    IN  IF ~csv_data.is_str THEN Raised("from_csv", <<csv_data>>, "TypeError")
        ELSE IF rows = <<>> THEN Returned("from_csv", <<csv_data>>, << EmptyCsvText >>)
        ELSE IF table.raised THEN Raised("from_csv", <<csv_data>>, table.error)
        ELSE Returned("from_csv", <<csv_data>>, table.value)

\* from_csv with every record, the first included, as a data row
from_csv_FirstRowAsData(csv_data) ==
    LET rows == csv_rows(csv_data.text)
        table == create_table(rows[1], rows, NoWidths, TRUE, TRUE)
    IN  IF ~csv_data.is_str
        THEN Returned("from_csv", <<csv_data>>, << CsvErrorText(StringIOTypeError) >>)
        ELSE IF rows = <<>> THEN Returned("from_csv", <<csv_data>>, << EmptyCsvText >>)
        ELSE IF table.raised
        THEN Returned("from_csv", <<csv_data>>, << CsvErrorText(table.error) >>)
        ELSE Returned("from_csv", <<csv_data>>, table.value)

\* from_csv(csv_data): io.StringIO raises TypeError for bytes, and every
\* exception of the body is turned into the error text
from_csv(csv_data) ==
    LET rows == csv_rows(csv_data.text)
        table == create_table(rows[1], Tail(rows), NoWidths, TRUE, TRUE)
    IN  IF ~csv_data.is_str
        THEN Returned("from_csv", <<csv_data>>, << CsvErrorText(StringIOTypeError) >>)
        ELSE IF rows = <<>> THEN Returned("from_csv", <<csv_data>>, << EmptyCsvText >>)
        ELSE IF table.raised
        THEN Returned("from_csv", <<csv_data>>, << CsvErrorText(table.error) >>)
        ELSE Returned("from_csv", <<csv_data>>, table.value)

(***************************************************************************)
(* The DataConnector calls.  Each behaviour starts with a call and its     *)
(* arguments in ret, and the one step of the behaviour makes the call.     *)
(***************************************************************************)
MaxFacts == 3
MaxItems == 3
MaxRows == 3
MaxCols == 2
MaxRecords == 2
MaxCsvLen == 4

Call(name, args) == [op |-> "call", args |-> args, raised |-> FALSE, value |-> name]

SeqsUpTo(S, n) == UNION { [1..k -> S] : k \in 0..n }

DistinctKeys(entries) ==
    \A i, j \in DOMAIN entries : i # j => entries[i][1] # entries[j][1]

DictKeys == {"x", "y", "z"}

\* dicts of strings, as create_fact_set takes them
FactMaps ==
    { m \in SeqsUpTo(DictKeys \X {"1", "two"}, MaxFacts) : DistinctKeys(m) }

ListItems == SeqsUpTo({"a", "b"}, MaxItems)

Headers(n) == [i \in 1..n |-> "h" \o ToString(i)]
Cells(n) == [i \in 1..n |-> "c" \o ToString(i)]

TableRows == SeqsUpTo({ Cells(n) : n \in 0..MaxCols + 1 }, MaxRows)

ColumnWidths == {NoWidths} \cup { Widths([i \in 1..n |-> i]) : n \in 0..MaxCols + 1 }

JsonLeaves ==
    { PyStrValue("a"), PyInt("1"), PyBool(TRUE), PyNone,
      PyList(<< PyInt("1"), PyStrValue("a") >>), PyDict(<<"k">>, << PyStrValue("v") >>) }

Distinct(seq) == \A i, j \in DOMAIN seq : i # j => seq[i] # seq[j]

KeyOrders == { keys \in SeqsUpTo(DictKeys, 3) : Distinct(keys) }

JsonDicts ==
    UNION { { PyDict(keys, values) : values \in [DOMAIN keys -> JsonLeaves] } :
              keys \in { k \in KeyOrders : Len(k) <= 2 } }

\* dicts with one to three of the keys, in every order
Records ==
    { PyDict(keys, [i \in DOMAIN keys |-> PyInt(ToString(i))]) : keys \in KeyOrders }

JsonRecordLists == { PyList(l) : l \in SeqsUpTo(Records, MaxRecords) }

JsonOtherLists ==
    { PyList(l) :
        l \in SeqsUpTo({ PyStrValue("a"), PyInt("1"), PyNone, PyList(<<>>),
                         PyDict(<<"x">>, << PyInt("1") >>) }, MaxItems) }

\* texts on which json.loads raises JSONDecodeError
InvalidJsonTexts ==
    { "", " ", "{", "}", "[1, 2", "[1 2]", "{\"x\": 1,}", "{x: 1}", "\"a", "01", "tru",
      "[1]]", "{\"x\" 1}", "{\"x\": }", "Invalid JSON" }

ValidJsonTexts ==
    { "{}", "[]", " [ ] ", "1", "\"a\"", "true", "false", "null",
      "{\"x\": 1, \"y\": \"a\"}", "{\"y\": [1, 2], \"x\": {\"k\": null}}",
      "{\"x\": 1, \"y\": 2, \"x\": 3}",
      "[1, \"a\", null]", "[{\"x\": 1}, 2]", "[[1], [2]]",
      "[{\"y\": 1, \"x\": 2}]", "[{\"y\": 1}, {\"x\": 2, \"y\": 3}]",
      "[{\"z\": 1, \"x\": 2}, {\"y\": 3}]", "[{}]", "[{}, {\"x\": 1}]" }

JsonTexts == InvalidJsonTexts \cup ValidJsonTexts

JsonInputs ==
    { JsonText(t) : t \in JsonTexts }
        \cup { JsonData(v) : v \in JsonLeaves \cup JsonDicts \cup JsonRecordLists
                                       \cup JsonOtherLists }

CsvAlphabet == {"a", ",", "\"", "\n"}

RECURSIVE TextsUpTo(_)
TextsUpTo(n) ==
    IF n = 0 THEN {""}
    ELSE LET shorter == TextsUpTo(n - 1)
         IN  shorter \cup { t \o c : t \in shorter, c \in CsvAlphabet }

CsvInputs == { CsvText(t) : t \in TextsUpTo(MaxCsvLen) } \cup { CsvBytes("a,a\na,a") }

InitData ==
    /\ card = NewCard(DEFAULT_CARD_VERSION, TRUE)
    /\ vu = ValidationUtility_init("teams")
    /\ dm = NoManager
    /\ repeated = FALSE
    /\ \/ \E m \in FactMaps : ret = Call("create_fact_set", <<m>>)
       \/ \E items \in ListItems, numbered \in BOOLEAN :
              ret = Call("create_list", <<items, numbered>>)
       \/ \E headers \in { Headers(n) : n \in 0..MaxCols }, rows \in TableRows,
             widths \in ColumnWidths, has_header_row \in BOOLEAN, alternate \in BOOLEAN :
              ret = Call("create_table", <<headers, rows, widths, has_header_row, alternate>>)
       \/ \E json_data \in JsonInputs : ret = Call("from_json", <<json_data>>)
       \/ \E csv_data \in CsvInputs : ret = Call("from_csv", <<csv_data>>)

Calling(name) == ret.op = "call" /\ ret.value = name

DataConnector_create_fact_set ==
    /\ Calling("create_fact_set")
    /\ ret' = Returned("create_fact_set", ret.args, create_fact_set(ret.args[1]))
    /\ UNCHANGED <<card, vu, dm, repeated>>

DataConnector_create_list ==
    /\ Calling("create_list")
    /\ ret' = Returned("create_list", ret.args, create_list(ret.args[1], ret.args[2]))
    /\ UNCHANGED <<card, vu, dm, repeated>>

DataConnector_create_table ==
    /\ Calling("create_table")
    /\ LET out == create_table(ret.args[1], ret.args[2], ret.args[3], ret.args[4], ret.args[5])
       IN  ret' = IF out.raised THEN Raised("create_table", ret.args, out.error)
                  ELSE Returned("create_table", ret.args, out.value)
    /\ UNCHANGED <<card, vu, dm, repeated>>

DataConnector_from_json ==
    /\ Calling("from_json")
    /\ ret' \in from_json(ret.args[1])
    /\ UNCHANGED <<card, vu, dm, repeated>>

DataConnector_from_csv ==
    /\ Calling("from_csv")
    /\ ret' = from_csv(ret.args[1])
    /\ UNCHANGED <<card, vu, dm, repeated>>

NextData ==
    \/ DataConnector_create_fact_set
    \/ DataConnector_create_list
    \/ DataConnector_create_table
    \/ DataConnector_from_json
    \/ DataConnector_from_csv

SpecData == InitData /\ [][NextData]_vars

(***************************************************************************)
(* LayoutHelper.create_header_body_footer_layout.  The footer_items        *)
(* argument is None or a list.                                             *)
(***************************************************************************)
MaxLayoutItems == 2

NoFooter == [given |-> FALSE, items |-> <<>>]
Footer(items) == [given |-> TRUE, items |-> items]

\* Container(items=..., style=..., bleed=..., spacing=..., separator=...)
LayoutContainer(items, style, bleed, spacing, separator) ==
    [ type |-> "Container", items |-> items, style |-> style, bleed |-> bleed,
      spacing |-> spacing, separator |-> separator ]

\* the layout with the footer appended whenever footer_items is not None
create_header_body_footer_layout_FooterNotNone(header_items, body_items, footer_items, header_style, body_style, footer_style) ==
    << LayoutContainer(header_items, header_style, TRUE, None, FALSE),
       LayoutContainer(body_items, body_style, FALSE, "medium", FALSE) >>
       \o IF footer_items.given
          THEN << LayoutContainer(footer_items.items, footer_style, FALSE, "medium", TRUE) >>
          ELSE <<>>

\* create_header_body_footer_layout(header_items, body_items, footer_items,
\* header_style, body_style, footer_style)
create_header_body_footer_layout(header_items, body_items, footer_items, header_style, body_style, footer_style) ==
    << LayoutContainer(header_items, header_style, TRUE, None, FALSE),
       LayoutContainer(body_items, body_style, FALSE, "medium", FALSE) >>
       \o IF footer_items.given /\ footer_items.items # <<>>
          THEN << LayoutContainer(footer_items.items, footer_style, FALSE, "medium", TRUE) >>
          ELSE <<>>

LayoutItems == SeqsUpTo({ TextBlock("title"), Image("logo") }, MaxLayoutItems)

InitLayout ==
    /\ card = NewCard(DEFAULT_CARD_VERSION, TRUE)
    /\ vu = ValidationUtility_init("teams")
    /\ dm = NoManager
    /\ repeated = FALSE
    /\ \E header_items \in LayoutItems, body_items \in LayoutItems,
          footer_items \in {NoFooter} \cup { Footer(items) : items \in LayoutItems },
          header_style \in {"emphasis", "good"}, footer_style \in {"accent", None} :
           ret = Call("create_header_body_footer_layout",
                      <<header_items, body_items, footer_items, header_style, None,
                        footer_style>>)

LayoutHelper_create_header_body_footer_layout ==
    /\ Calling("create_header_body_footer_layout")
    /\ ret' = Returned("create_header_body_footer_layout", ret.args,
                       create_header_body_footer_layout(ret.args[1], ret.args[2], ret.args[3],
                                                        ret.args[4], ret.args[5], ret.args[6]))
    /\ UNCHANGED <<card, vu, dm, repeated>>

NextLayout == LayoutHelper_create_header_body_footer_layout

SpecLayout == InitLayout /\ [][NextLayout]_vars

(***************************************************************************)
(* AdaptiveCardGenerator.generate_card.  While the call runs, ret.value is *)
(* its frame: the position in the code (at), the local tries and result,   *)
(* the status last polled, and the requests made to the assistant API so   *)
(* far (runs started, retry prompts sent, tool outputs submitted).  What   *)
(* the API answers is an input of each step.                               *)
(***************************************************************************)
MaxTries == 3
MaxSubmits == 2

MaxTriesMessage == "Maximum number of tries reached without generating a valid card."
RunFailedMessage == "Run failed: {run_status.last_error}"

\* the result dict generate_card starts with
NoCardResult ==
    [success |-> FALSE, card |-> None, card_json |-> None, explanation |-> "", error |-> None]

RunStatuses == {"queued", "in_progress", "requires_action", "completed", "failed"}

Frame == ret.value
Generating(at) == ret.op = "generate_card" /\ ~ret.raised /\ Frame.at = at

Step(frame) == [ret EXCEPT !.value = frame]

\* the thread is created and the user's prompt added to it
create_thread ==
    /\ Calling("generate_card")
    /\ ret' = Returned("generate_card", ret.args,
                       [ at |-> "while", tries |-> 0, result |-> NoCardResult,
                         status |-> None, runs |-> 0, prompts |-> 0, submits |-> 0 ])
    /\ UNCHANGED <<card, vu, dm, repeated>>

\* while tries < max_tries: tries += 1 and a run is started
start_run ==
    /\ Generating("while")
    /\ Frame.tries < ret.args[1]
    /\ ret' = Step([Frame EXCEPT !.tries = @ + 1, !.runs = @ + 1, !.status = None,
                                 !.at = "poll"])
    /\ UNCHANGED <<card, vu, dm, repeated>>

\* the loop ends without a card
give_up ==
    /\ Generating("while")
    /\ ~(Frame.tries < ret.args[1])
    /\ ret' = Step([Frame EXCEPT !.result.error = MaxTriesMessage, !.at = "returned"])
    /\ UNCHANGED <<card, vu, dm, repeated>>

\* one round of the polling loop, the run having this status
poll(run_status) ==
    /\ Generating("poll")
    /\ run_status = "requires_action" => Frame.submits < MaxSubmits
    /\ ret' = Step(
          IF run_status = "completed"
          THEN [Frame EXCEPT !.status = run_status, !.at = "messages"]
          ELSE IF run_status = "requires_action"
          THEN [Frame EXCEPT !.status = run_status, !.submits = @ + 1]
          ELSE IF run_status = "failed"
          THEN [Frame EXCEPT !.status = run_status, !.result.error = RunFailedMessage,
                             !.at = "returned"]
          ELSE [Frame EXCEPT !.status = run_status])
    /\ UNCHANGED <<card, vu, dm, repeated>>

\* the end of an attempt, with the retry prompt sent after every attempt
AfterMessages_AlwaysPrompt(frame, max_tries, card_data, explanation) ==
    IF card_data
    THEN [frame EXCEPT !.result.success = TRUE, !.result.card = "card",
                       !.result.card_json = "card_json",
                       !.result.explanation = explanation, !.at = "returned"]
    ELSE [frame EXCEPT !.prompts = @ + 1, !.at = "while"]

\* the end of an attempt: the messages are read; with a card in the tool
\* outputs of the run the call returns it, otherwise the retry prompt is sent
\* if tries are left
AfterMessages(frame, max_tries, card_data, explanation) ==
    IF card_data
    THEN [frame EXCEPT !.result.success = TRUE, !.result.card = "card",
                       !.result.card_json = "card_json",
                       !.result.explanation = explanation, !.at = "returned"]
    ELSE IF frame.tries < max_tries
    THEN [frame EXCEPT !.prompts = @ + 1, !.at = "while"]
    ELSE [frame EXCEPT !.at = "while"]

read_messages(card_data, explanation) ==
    /\ Generating("messages")
    /\ ret' = Step(AfterMessages(Frame, ret.args[1], card_data, explanation))
    /\ UNCHANGED <<card, vu, dm, repeated>>

InitAgent ==
    /\ card = NewCard(DEFAULT_CARD_VERSION, TRUE)
    /\ vu = ValidationUtility_init("teams")
    /\ dm = NoManager
    /\ repeated = FALSE
    /\ \E max_tries \in 0..MaxTries : ret = Call("generate_card", <<max_tries>>)

NextAgent ==
    \/ create_thread
    \/ start_run
    \/ give_up
    \/ \E run_status \in RunStatuses : poll(run_status)
    \/ \E card_data \in BOOLEAN, explanation \in {"", "A card with a title."} :
          read_messages(card_data, explanation)

SpecAgent == InitAgent /\ [][NextAgent]_vars

(***************************************************************************)
(* Properties.  After a validate call ret holds its report, card is the    *)
(* card it validated and vu the utility that validated it: every call that *)
(* changes the card or replaces the utility also replaces ret.             *)
(***************************************************************************)
Validated == ret.op = "validate"
Report == ret.value

Contains(seq, x) == \E i \in 1..Len(seq) : seq[i] = x

Count(seq, x) == Cardinality({i \in 1..Len(seq) : seq[i] = x})

\* C1 as stated: validate on a card with an empty body reports valid = false
\* and EMPTY_CARD among the details, and under the "teams" target the
\* suggestions are exactly the one "Card body is empty..." entry.
C1_EmptyBodyAsStated ==
    (Validated /\ BodyOrEmpty(card) = <<>>) =>
        /\ ~Report.valid
        /\ Contains(Report.details, "EMPTY_CARD")
        /\ (Lower(vu.target) = "teams" =>
                Report.suggestions = << EmptyCardSuggestion >>)

\* C1 amended: validate on a card with an empty body reports valid = false,
\* EMPTY_CARD as the first detail and "Card body is empty..." as the first
\* suggestion; under the "teams" target that is the only suggestion exactly
\* when the card is no larger than 22.40 KB (0.8 of the 28 KB limit).
C1_EmptyBody ==
    (Validated /\ BodyOrEmpty(card) = <<>>) =>
        /\ ~Report.valid
        /\ Contains(Report.details, "EMPTY_CARD")
        /\ Report.details[1] = "EMPTY_CARD"
        /\ Len(Report.suggestions) >= 1
        /\ Report.suggestions[1] = EmptyCardSuggestion
        /\ (Lower(vu.target) = "teams" =>
                (Report.suggestions = << EmptyCardSuggestion >>
                    <=> Report.size <= 2240))

C1_Witness ==
    /\ Validated
    /\ BodyOrEmpty(card) = <<>>
    /\ vu.target = "teams"
    /\ Report.suggestions = << EmptyCardSuggestion >>
    /\ Report.details = << "EMPTY_CARD" >>

\* C2: validate is idempotent: a validate call that directly follows a
\* validate call on the same card by the same utility returns the same
\* report, whatever the utility validated earlier.
C2_Idempotent ==
    [][(Validated /\ ret'.op = "validate") => ret'.value = ret.value]_vars

C2_Witness ==
    /\ Validated
    /\ repeated
    /\ Len(Report.details) >= 2
    /\ Report.warnings # <<>>

\* C3: in every report of validate, valid is true exactly when details is
\* empty.
C3_ValidIffNoDetails ==
    Validated => (Report.valid <=> Report.details = <<>>)

C3_Witness ==
    /\ Validated
    /\ Report.valid
    /\ Report.details = <<>>
    /\ BodyOrEmpty(card) # <<>>

\* C4 as stated: details contains SIZE_LIMIT_EXCEEDED exactly when the
\* report's size is greater than its size_limit, and size_limit is 28 for
\* the "teams" target and 40 for any other.
C4_SizeFailureIffOverLimit ==
    Validated =>
        /\ Report.size_limit = (IF Lower(vu.target) = "teams" THEN 28 ELSE 40)
        /\ (Contains(Report.details, "SIZE_LIMIT_EXCEEDED")
                <=> Report.size > Report.size_limit * 100)

C5_BlockLen(failure) == IF failure = "SIZE_LIMIT_EXCEEDED" THEN 4 ELSE 1

RECURSIVE C5_Offset(_, _)
C5_Offset(details, i) ==
    IF i <= 1 THEN 0
    ELSE C5_Offset(details, i - 1) + C5_BlockLen(details[i - 1])

C6_IsApproaching(w) ==
    w.text = "Card size ({card_size:.2f}KB) is approaching the limit ({size_limit}KB)."

\* C6: the "approaching the limit" warning and exactly one generic
\* "Consider optimizing" suggestion, placed last, are added exactly when
\* size_limit * 0.8 < size <= size_limit; otherwise neither is added.
C6_SizeTier ==
    Validated =>
        LET r == Report
            band == 10 * r.size > 8 * (r.size_limit * 100) /\ r.size <= r.size_limit * 100
            approaching == {i \in 1..Len(r.warnings) : C6_IsApproaching(r.warnings[i])}
        IN  /\ Cardinality(approaching) = (IF band THEN 1 ELSE 0)
            /\ band => Contains(r.warnings, ApproachingWarning(r.size, r.size_limit))
            /\ Count(r.suggestions, OptimizeSuggestion) = (IF band THEN 1 ELSE 0)
            /\ band => r.suggestions[Len(r.suggestions)] = OptimizeSuggestion

C6_Witness ==
    /\ Validated
    /\ Report.size = 2241
    /\ Report.size_limit = 28
    /\ Len(Report.suggestions) >= 2
    /\ Report.suggestions[Len(Report.suggestions)] = OptimizeSuggestion

\* the response as it stands when the check for IDs is reached
C7_BeforeIdCheck ==
    AddSizeWarning(
        AddFindingSuggestions(
            PrepareResponse(vu.target, CardValidator_result(vu.validator),
                            card_size_of(card), vu.validator.findings),
            vu.validator.findings, card.version),
        card_size_of(card))

\* C7: the "No elements have IDs" warning is added exactly when no top-level
\* body element has a non-empty id (also for an empty or absent body), and
\* adding it leaves valid, details and suggestions as they were.
C7_IdWarning ==
    Validated =>
        LET body == BodyOrEmpty(card)
            no_ids == \A i \in 1..Len(body) : body[i].id \in {None, ""}
        IN  /\ Count(Report.warnings, NoIdsWarning) = (IF no_ids THEN 1 ELSE 0)
            /\ Report.valid = C7_BeforeIdCheck.valid
            /\ Report.details = C7_BeforeIdCheck.details
            /\ Report.suggestions = C7_BeforeIdCheck.suggestions
            /\ Report.warnings =
                   C7_BeforeIdCheck.warnings
                       \o (IF no_ids THEN << NoIdsWarning >> ELSE <<>>)

C7_Witness ==
    /\ Validated
    /\ Len(BodyOrEmpty(card)) >= 2
    /\ Contains(Report.warnings, NoIdsWarning)
    /\ Report.valid

\* C8: validate, get_size and suggest_optimizations leave the card's
\* version, body and actions as they were.
C8_DocumentUnchanged ==
    [][ret'.op \in {"validate", "get_size", "suggest_optimizations"} => card' = card]_vars

C8_Witness ==
    /\ ret.op = "suggest_optimizations"
    /\ Len(card.body) >= 1
    /\ card.actions # <<>>
    /\ vu.validator.findings # <<>>

\* C9 as stated: suggest_optimizations returns the empty list whenever
\* size <= 0.7 * limit; otherwise the size summary followed, in this order,
\* by the entries for more than 10 elements, for at least one element with
\* a url, and for more than 3 elements with items.
C9_OptimizationsAsStated ==
    ret.op = "suggest_optimizations" =>
        LET size == card_size_of(card)
            limit == IF Lower(vu.target) = "teams" THEN 28 ELSE 40
            body == BodyOrEmpty(card)
            images == Cardinality({i \in 1..Len(body) : body[i].type = "Image"})
            containers == Cardinality({i \in 1..Len(body) : body[i].type = "Container"})
        IN  IF 10 * size <= 7 * (limit * 100)
            THEN ret.value = <<>>
            ELSE ret.value =
                    << SizeSummary(size, limit) >>
                    \o (IF Len(body) > 10 THEN << ReduceElementsSuggestion >> ELSE <<>>)
                    \o (IF images >= 1 THEN << ImagesSuggestion(images) >> ELSE <<>>)
                    \o (IF containers > 3 THEN << ContainersSuggestion(containers) >> ELSE <<>>)

C10_Supported(target) == Lower(target) = "teams"

\* C10 as stated: constructing a ValidationUtility or a DeliveryManager
\* for a target other than "teams" raises, and no instance configured for
\* such a target is ever held by the caller.
C10_UnsupportedTargetRaises ==
    /\ (ret.op = "ValidationUtility" /\ ~C10_Supported(ret.args[1])) => ret.raised
    /\ (ret.op = "DeliveryManager" /\ ~C10_Supported(ret.args[2])) => ret.raised
    /\ C10_Supported(vu.target)
    /\ dm.made => dm.platform = "teams"

\* C10 amended: constructing a ValidationUtility never raises: any target
\* is accepted and gets the Teams validator.  Constructing a
\* DeliveryManager raises exactly when a non-empty webhook URL comes with a
\* platform other than "teams"; without a webhook URL any platform is
\* accepted and the manager has no client.  No manager for a platform other
\* than "teams" ever has a client.
C10_Construction ==
    /\ ret.op = "ValidationUtility" =>
          /\ ~ret.raised
          /\ vu.target = ret.args[1]
          /\ vu.validator.framework = "teams"
    /\ ret.op = "DeliveryManager" =>
          /\ ret.raised <=> (ret.args[1] \notin {None, ""} /\ ~C10_Supported(ret.args[2]))
          /\ ~ret.raised =>
                /\ dm.made
                /\ dm.platform = Lower(ret.args[2])
                /\ dm.webhook_url = ret.args[1]
                /\ dm.validation_utility.target = ret.args[2]
                /\ dm.client.set <=> ret.args[1] \notin {None, ""}
    /\ (dm.made /\ dm.platform # "teams") => ~dm.client.set

C10_Witness ==
    /\ ret.op = "DeliveryManager"
    /\ ret.raised
    /\ vu.target = "slack"
    /\ dm.made
    /\ dm.platform = "slack"


(***************************************************************************)
(* Delivery.  After a send call ret.value holds the result dict and the    *)
(* calls send made, in order.                                              *)
(***************************************************************************)
Sent == ret.op = "send"
SendResult == ret.value.result
SendCalls == ret.value.calls
ValidateRequested == ret.args[1] = "True"

ClientCalls == { i \in DOMAIN SendCalls : SendCalls[i].call = "client.send" }
ValidateCalls == { i \in DOMAIN SendCalls : SendCalls[i].call = "validation_utility.validate" }

ReportInvalid == "validation" \in DOMAIN SendResult /\ ~SendResult.validation.valid

\* C11: send calls the client only when a client is configured and either
\* validation was not requested or the report is valid; without a client, or
\* with validation requested and an invalid report, send returns success
\* false with no client call; and a validation made by send comes before the
\* client call.
C11_ClientCallGuarded ==
    Sent =>
        /\ (ClientCalls # {}) =>
               /\ dm.client.set
               /\ (~ValidateRequested \/ SendResult.validation.valid)
        /\ (~dm.client.set \/ (ValidateRequested /\ ReportInvalid)) =>
               /\ ~ret.raised
               /\ SendResult.success = FALSE
               /\ ClientCalls = {}
        /\ ValidateRequested /\ dm.client.set => ValidateCalls # {}
        /\ \A i \in ValidateCalls, j \in ClientCalls : i < j

\* a client is configured, validation was requested, the report is invalid
C11_Witness ==
    /\ Sent /\ dm.client.set /\ ValidateRequested /\ ReportInvalid
    /\ ClientCalls = {}

\* validation ran and the client was then called
C11_WitnessDelivered ==
    /\ Sent /\ ValidateCalls # {} /\ ClientCalls # {}

\* C12: a failure of the delivery client during send (an exception from
\* client.send, or a status code outside 200..299) comes back as a result
\* with success false and a message; no send call raises.
C12_ClientFailureReturned ==
    Sent =>
        /\ ~ret.raised
        /\ \A i \in ClientCalls :
               (SendCalls[i].raised
                    \/ ~(200 <= SendCalls[i].status_code /\ SendCalls[i].status_code < 300))
               => /\ SendResult.success = FALSE
                  /\ "message" \in DOMAIN SendResult
                  /\ SendResult.message \in
                        {DeliveryErrorMessage, DeliveryFailedMessage(SendCalls[i].status_code)}

\* client.send raised
C12_Witness ==
    /\ Sent /\ \E i \in ClientCalls : SendCalls[i].raised

\* C13: when the client answers a send, success is true exactly when
\* 200 <= status_code < 300, the result's status_code is the response's, and
\* the client was called exactly once by that send.
C13_SuccessIff2xx ==
    Sent /\ (\E i \in ClientCalls : ~SendCalls[i].raised) =>
        /\ Cardinality(ClientCalls) = 1
        /\ \A i \in ClientCalls :
               /\ SendResult.success =
                      (200 <= SendCalls[i].status_code /\ SendCalls[i].status_code < 300)
               /\ SendResult.status_code = SendCalls[i].status_code

\* the client answered 300
C13_Witness ==
    /\ Sent /\ \E i \in ClientCalls : ~SendCalls[i].raised /\ SendCalls[i].status_code = 300
    /\ SendResult.success = FALSE



(***************************************************************************)
(* DataConnector.  After a call ret holds its arguments and what it        *)
(* returned or raised.                                                     *)
(***************************************************************************)
Called(name) == ret.op = name

\* the value from_json works on: the parsed text, or the data given
GivenData == IF ret.args[1].is_str THEN json_loads(ret.args[1].text).value
             ELSE ret.args[1].value

IsText(element) == element.type = "TextBlock"

StartsWithText(text, prefix) ==
    Len(text) >= Len(prefix) /\ SubSeq(text, 1, Len(prefix)) = prefix

\* C14: from_json on a text that is not valid JSON returns exactly one Text
\* element reading "Invalid JSON data", and does not raise.
C14_InvalidJson ==
    Called("from_json") /\ ret.args[1].is_str /\ ret.args[1].text \in InvalidJsonTexts =>
        /\ ~ret.raised
        /\ Len(ret.value) = 1
        /\ IsText(ret.value[1])
        /\ ret.value[1].text = "Invalid JSON data"

C14_Witness ==
    /\ Called("from_json") /\ ret.args[1].is_str /\ ret.args[1].text = "{\"x\": 1,}"
    /\ ~ret.raised

AllMaps(data) ==
    IsList(data) /\ data.items # <<>> /\ \A i \in DOMAIN data.items : IsDict(data.items[i])

\* C15: from_json on valid input returns, for a map, exactly one FactSet with
\* one fact per key in iteration order, dict and list values as indented
\* JSON; for a non-empty list of maps, the table output, a header container
\* and one container per record; for every other list, one bullet Text per
\* element in order.
C15_Dispatch ==
    Called("from_json") /\ ~(ret.args[1].is_str /\ ~json_loads(ret.args[1].text).ok) =>
        LET data == GivenData
            out == ret.value
        IN  /\ ~ret.raised
            /\ IsDict(data) =>
                  /\ Len(out) = 1 /\ out[1].type = "FactSet"
                  /\ Len(out[1].facts) = Len(data.keys)
                  /\ \A i \in DOMAIN data.keys :
                        /\ out[1].facts[i].title = data.keys[i]
                        /\ out[1].facts[i].value =
                              IF data.items[i].t \in {"dict", "list"}
                              THEN JsonDumps(data.items[i], 2, 0)
                              ELSE PyStr(data.items[i])
            /\ AllMaps(data) =>
                  /\ Len(out) = 1 + Len(data.items)
                  /\ \A i \in DOMAIN out : out[i].type = "Container"
                  /\ out[1].style = "emphasis" /\ out[1].separator
                  /\ \A i \in 2..Len(out) : out[i].style # "emphasis"
            /\ IsList(data) /\ ~AllMaps(data) =>
                  /\ Len(out) = Len(data.items)
                  /\ \A i \in DOMAIN out :
                        IsText(out[i]) /\ out[i].text = BulletPrefix \o PyStr(data.items[i])

\* a list with a map and a scalar gives bullets
C15_Witness ==
    /\ Called("from_json") /\ ~ret.raised
    /\ ret.args[1].is_str /\ ret.args[1].text = "[{\"x\": 1}, 2]"
    /\ Len(ret.value) = 2 /\ IsText(ret.value[2])

RECURSIVE FirstSeen(_, _)
\* the keys of the records, each at its first occurrence, after those in seen
FirstSeen(keys, seen) ==
    IF keys = <<>> THEN seen
    ELSE FirstSeen(Tail(keys),
                   IF \E i \in DOMAIN seen : seen[i] = Head(keys) THEN seen
                   ELSE Append(seen, Head(keys)))

RECURSIVE Flatten(_)
Flatten(seqs) == IF seqs = <<>> THEN <<>> ELSE Head(seqs) \o Flatten(Tail(seqs))

\* the texts of the columns of a container
ColumnTexts(container) ==
    [j \in DOMAIN container.items[1].columns |-> container.items[1].columns[j].items[1].text]

\* C16: for a non-empty list of maps the table headers are the first-seen
\* union of the keys, records scanned left to right and each record's keys in
\* iteration order.
C16_FirstSeenHeaders ==
    Called("from_json") /\ ~ret.args[1].is_str /\ AllMaps(ret.args[1].value) =>
        ColumnTexts(ret.value[1]) =
            FirstSeen(Flatten([k \in DOMAIN ret.args[1].value.items |->
                                  ret.args[1].value.items[k].keys]), <<>>)

\* C17: from_csv does not raise, and a failure while parsing or building the
\* table gives exactly one error Text element.
C17_FromCsvRecovers ==
    Called("from_csv") =>
        /\ ~ret.raised
        /\ ~ret.args[1].is_str =>
              /\ Len(ret.value) = 1 /\ IsText(ret.value[1])
              /\ ret.value[1].color = "attention"
              /\ StartsWithText(ret.value[1].text, "Error parsing CSV: ")
        /\ \/ Len(ret.value) = 1 /\ IsText(ret.value[1])
           \/ \A i \in DOMAIN ret.value : ret.value[i].type = "Container"

C17_Witness ==
    /\ Called("from_csv") /\ ~ret.args[1].is_str /\ ~ret.raised /\ Len(ret.value) = 1

\* C18: create_table does not raise, whatever the lengths of headers, rows
\* and column_widths.
C18_CreateTableNeverRaises ==
    Called("create_table") => ~ret.raised

\* C19: create_fact_set(m) has exactly len(m) facts, the i-th being the i-th
\* entry of m in iteration order.
C19_FactsInOrder ==
    Called("create_fact_set") =>
        /\ ~ret.raised
        /\ ret.value.type = "FactSet"
        /\ Len(ret.value.facts) = Len(ret.args[1])
        /\ \A i \in DOMAIN ret.args[1] :
              /\ ret.value.facts[i].title = ret.args[1][i][1]
              /\ ret.value.facts[i].value = ret.args[1][i][2]

C19_Witness ==
    /\ Called("create_fact_set") /\ Len(ret.args[1]) = 3
    /\ ret.args[1][1][1] = "z" /\ ret.value.facts[1].title = "z"

\* C20: create_list(L, is_numbered) returns len(L) Text elements in input
\* order; numbered, the i-th (from 1) reads "{i}. " followed by L[i-1];
\* otherwise every element starts with the bullet prefix.
C20_ListTexts ==
    Called("create_list") =>
        /\ ~ret.raised
        /\ Len(ret.value) = Len(ret.args[1])
        /\ \A i \in DOMAIN ret.value :
              /\ IsText(ret.value[i])
              /\ IF ret.args[2]
                 THEN ret.value[i].text = ToString(i) \o ". " \o ret.args[1][i]
                 ELSE /\ StartsWithText(ret.value[i].text, BulletPrefix)
                      /\ ret.value[i].text = BulletPrefix \o ret.args[1][i]

C20_Witness ==
    /\ Called("create_list") /\ ret.args[2] /\ Len(ret.args[1]) = 3
    /\ ret.value[3].text = "3. b"


\* the arguments of a create_table call
TableHeaders == ret.args[1]
TableDataRows == ret.args[2]
HasHeaderRow == ret.args[4]
AlternateRowStyle == ret.args[5]

\* the container of the data row at 0-based index k in what create_table returned
RowContainerAt(k) == ret.value[IF HasHeaderRow THEN k + 2 ELSE k + 1]

ColumnCount(container) == Len(container.items[1].columns)

\* C21: with alternate_row_style the container of the data row at 0-based
\* index k has the accent style exactly when k is odd, with or without a
\* header container before the rows; without alternate_row_style no data row
\* has a style.
C21_AccentIffOdd ==
    Called("create_table") /\ ~ret.raised =>
        \A k \in 0..Len(TableDataRows) - 1 :
            IF AlternateRowStyle
            THEN (RowContainerAt(k).style = "accent") = (k % 2 = 1)
            ELSE RowContainerAt(k).style = None

\* three rows after a header: only the middle one is accented
C21_Witness ==
    /\ Called("create_table") /\ ~ret.raised /\ HasHeaderRow /\ AlternateRowStyle
    /\ Len(TableDataRows) = 3
    /\ RowContainerAt(0).style = None /\ RowContainerAt(1).style = "accent"
    /\ RowContainerAt(2).style = None

\* C22: with has_header_row create_table returns exactly 1 + len(rows)
\* containers, the first with the emphasis style, a separator and one bold
\* column per header, then one container per row in row order; without
\* has_header_row it returns exactly len(rows) containers, none with the
\* emphasis style.
C22_ContainerCount ==
    Called("create_table") =>
        /\ ~ret.raised
        /\ \A i \in DOMAIN ret.value : ret.value[i].type = "Container"
        /\ HasHeaderRow =>
              /\ Len(ret.value) = 1 + Len(TableDataRows)
              /\ ret.value[1].style = "emphasis" /\ ret.value[1].separator
              /\ ColumnTexts(ret.value[1]) = TableHeaders
              /\ \A j \in DOMAIN TableHeaders :
                    ret.value[1].items[1].columns[j].items[1].weight = "bolder"
        /\ ~HasHeaderRow =>
              /\ Len(ret.value) = Len(TableDataRows)
              /\ \A i \in DOMAIN ret.value : ret.value[i].style # "emphasis"

\* C23: no rendered data row has more columns than there are headers,
\* whatever column_widths is.
C23_ExtraCellsDropped ==
    Called("create_table") /\ ~ret.raised =>
        \A k \in 0..Len(TableDataRows) - 1 :
            ColumnCount(RowContainerAt(k)) <= Len(TableHeaders)

\* C24: every rendered data row has exactly len(headers) columns, the cells
\* missing from a short row being empty texts.
C24_ShortRowsPadded ==
    Called("create_table") /\ ~ret.raised =>
        \A k \in 0..Len(TableDataRows) - 1 :
            /\ ColumnCount(RowContainerAt(k)) = Len(TableHeaders)
            /\ \A j \in 1..Len(TableHeaders) :
                  j > Len(TableDataRows[k + 1]) =>
                      RowContainerAt(k).items[1].columns[j].items[1].text = ""

\* the records of the text given to from_csv
CsvRecords == csv_rows(ret.args[1].text)

\* C25: from_csv on a text of n >= 1 records returns the header container of
\* record 1 followed by one container for each of the records 2..n in order,
\* the default options applied (the data row at index 1 has the accent
\* style); on empty input it returns exactly one Text reading
\* "Empty CSV data".
C25_CsvTable ==
    Called("from_csv") /\ ret.args[1].is_str =>
        /\ ~ret.raised
        /\ CsvRecords = <<>> =>
              /\ Len(ret.value) = 1 /\ IsText(ret.value[1])
              /\ ret.value[1].text = "Empty CSV data"
        /\ ret.args[1].text = "" => CsvRecords = <<>>
        /\ CsvRecords # <<>> =>
              /\ Len(ret.value) = Len(CsvRecords)
              /\ ret.value[1].style = "emphasis" /\ ret.value[1].separator
              /\ ColumnTexts(ret.value[1]) = CsvRecords[1]
              /\ \A k \in 2..Len(CsvRecords) :
                    /\ ret.value[k].type = "Container"
                    /\ ColumnTexts(ret.value[k]) =
                          SubSeq(CsvRecords[k], 1, Min(Len(CsvRecords[k]), Len(CsvRecords[1])))
                    /\ (ret.value[k].style = "accent") = ((k - 2) % 2 = 1)
                    /\ ret.value[k].style \in {"accent", None}

\* a header and two data rows: the second data row is accented
C25_Witness ==
    /\ Called("from_csv") /\ ret.args[1].is_str /\ ret.args[1].text = "a\n\na"
    /\ Len(ret.value) = 3 /\ ret.value[3].style = "accent"

\* C29: from_json returns the empty sequence exactly when the parsed or
\* given value is an empty list or is neither a map nor a list; in every
\* other case, an invalid text included, the result is not empty.
C29_EmptyResult ==
    Called("from_json") =>
        /\ ~ret.raised
        /\ IF ret.args[1].is_str /\ ret.args[1].text \in InvalidJsonTexts
           THEN ret.value # <<>>
           ELSE (ret.value = <<>>) =
                    \/ IsList(GivenData) /\ GivenData.items = <<>>
                    \/ ~IsDict(GivenData) /\ ~IsList(GivenData)

\* the JSON text of a number gives no element
C29_Witness ==
    /\ Called("from_json") /\ ret.args[1].is_str /\ ret.args[1].text = "1"
    /\ ret.value = <<>>


\* C26: create_header_body_footer_layout returns the header container (bleed,
\* header style) and the body container (medium spacing), followed by a
\* footer container (medium spacing, separator, footer style) exactly when
\* the footer items are a non-empty list; with no footer list or an empty one
\* it returns exactly two containers.
C26_HeaderBodyFooter ==
    Called("create_header_body_footer_layout") =>
        LET out == ret.value
            footer == ret.args[3]
            has_footer == footer.given /\ Len(footer.items) > 0
        IN  /\ ~ret.raised
            /\ Len(out) = IF has_footer THEN 3 ELSE 2
            /\ out[1].items = ret.args[1] /\ out[1].bleed /\ out[1].style = ret.args[4]
            /\ out[2].items = ret.args[2] /\ out[2].spacing = "medium"
            /\ has_footer =>
                  /\ out[3].items = footer.items
                  /\ out[3].spacing = "medium" /\ out[3].separator
                  /\ out[3].style = ret.args[6]

\* an empty footer list gives two containers
C26_Witness ==
    /\ Called("create_header_body_footer_layout")
    /\ ret.args[3].given /\ ret.args[3].items = <<>>
    /\ Len(ret.value) = 2


\* C27: no report has both the "approaching the limit" warning and
\* SIZE_LIMIT_EXCEEDED in details, for every card and every target.
C27_WarningWithinCeiling ==
    Validated =>
        ~ /\ \E i \in DOMAIN Report.warnings : C6_IsApproaching(Report.warnings[i])
          /\ Contains(Report.details, "SIZE_LIMIT_EXCEEDED")


\* C28: in every state reached by constructing a manager and calling
\* set_webhook_url and send in any order, the client is set only if the
\* platform is "teams" and a webhook URL was supplied; a send that reaches
\* the client is on the "teams" platform, and a send while the client is
\* unset answers "No webhook URL configured".
C28_ClientOnlyWithUrl ==
    dm.made =>
        /\ dm.client.set => dm.platform = "teams" /\ Truthy(dm.webhook_url)
        /\ Sent /\ ClientCalls # {} => dm.platform = "teams"
        /\ Sent /\ ~dm.client.set =>
              /\ SendResult.message = NoClientMessage
              /\ ClientCalls = {}


\* the frame of a generate_card call that has started
InGenerateCard == ret.op = "generate_card"
MaxTriesGiven == ret.args[1]

====
